---- MODULE Spec2Model ----
(***************************************************************************)
(* Model of the SMBIOS structure-table decoder of                          *)
(* osquery/tables/system/darwin/smbios_tables.cpp:                         *)
(*   void genSMBIOSTables(const uint8_t* tables, size_t length,            *)
(*                        QueryData& results)                              *)
(* Pointers are modelled as byte offsets from `tables` (tables_end is      *)
(* `length`).  The blob is a function 0..length-1 -> byte.  The decode     *)
(* loop is unfolded into one action per statement group so that every      *)
(* memory read and both loops (outer while, inner for) are visible.        *)
(* The textual form produced by INTEGER()/BIGINT() and the value of the    *)
(* MD5 digest are not modelled: rows hold the numbers, and the digest is   *)
(* represented by the bytes it reads.                                      *)
(***************************************************************************)
EXTENDS Integers, Sequences, FiniteSets, TLC

\* Largest blob length explored.
MaxLen == 8

\* Byte values explored: 0 (terminator / length 0), 4 (minimal header
\* length), 5 (header plus one formatted byte), 127 (End-of-Table type, and
\* a length that always overruns the blob).
ByteVals == {0, 4, 5, 127}

\* sizeof(SMBStructHeader): packed { uint8_t; uint8_t; uint16_t }.
SizeofHeader == 4

VARIABLES
  tables,         \* the blob: [0..length-1 -> byte]
  length,         \* number of bytes in the blob
  hostBigEndian,  \* byte order of the host the struct overlay runs on
  pc,             \* position in genSMBIOSTables
  table,          \* cursor (offset of `table` from `tables`)
  next_table,     \* scan pointer (offset of `next_table` from `tables`)
  index,          \* running row number
  r,              \* the Row under construction
  results,        \* QueryData: sequence of rows pushed so far
  offsets,        \* ghost: offset of the structure behind each pushed row
  reads           \* ghost: every blob index dereferenced so far

vars == <<tables, length, hostBigEndian, pc, table, next_table, index, r,
          results, offsets, reads>>

\* kSMBIOSTypeDescriptions
kSMBIOSTypeDescriptions ==
  (0 :> "BIOS Information") @@ (1 :> "System Information") @@
  (2 :> "Base Board or Module Information") @@
  (3 :> "System Enclosure or Chassis") @@ (4 :> "Processor Information") @@
  (5 :> "Memory Controller Information") @@
  (6 :> "Memory Module Information") @@ (7 :> "Cache Information") @@
  (8 :> "Port Connector Information") @@ (9 :> "System Slots") @@
  (10 :> "On Board Devices Information") @@ (11 :> "OEM Strings") @@
  (12 :> "System Configuration Options") @@
  (13 :> "BIOS Language Information") @@ (14 :> "Group Associations") @@
  (15 :> "System Event Log") @@ (16 :> "Physical Memory Array") @@
  (17 :> "Memory Device") @@ (18 :> "32-bit Memory Error Information") @@
  (19 :> "Memory Array Mapped Address") @@
  (20 :> "Memory Device Mapped Address") @@
  (21 :> "Built-in Pointing Device") @@ (22 :> "Portable Battery") @@
  (23 :> "System Reset") @@ (24 :> "Hardware Security") @@
  (25 :> "System Power Controls") @@ (26 :> "Voltage Probe") @@
  (27 :> "Cooling Device") @@ (28 :> "Temperature Probe") @@
  (29 :> "Electrical Current Probe") @@
  (30 :> "Out-of-Band Remote Access") @@
  (31 :> "Boot Integrity Services") @@ (32 :> "System Boot Information") @@
  (33 :> "64-bit Memory Error Information") @@ (34 :> "Management Device") @@
  (35 :> "Management Device Component") @@
  (36 :> "Management Device Threshold Data") @@ (37 :> "Memory Channel") @@
  (38 :> "IPMI Device Information") @@ (39 :> "System Power Supply") @@
  (40 :> "Additional Information") @@
  (41 :> "Onboard Devices Extended Info") @@ (126 :> "Inactive") @@
  (127 :> "End-of-Table") @@ (130 :> "Memory SPD Data") @@
  (131 :> "OEM Processor Type") @@ (132 :> "OEM Processor Bus Speed")

\* header->type, header->length: single bytes of the overlaid struct.
HeaderType(b, t) == b[t]

HeaderLength(b, t) == b[t + 1]

\* header->handle: a uint16_t read through the struct overlay, i.e. in the
\* byte order of the host.
HeaderHandle(b, t, be) ==
  IF be THEN 256 * b[t + 2] + b[t + 3] ELSE b[t + 2] + 256 * b[t + 3]

\* while (table + sizeof(SMBStructHeader) <= tables_end)
HeaderFits(t, len) == t + SizeofHeader <= len

HeaderInvalidStrict(t, hl, len) == t + hl >= len

\* if (table + header->length > tables_end)
HeaderInvalid(t, hl, len) == t + hl > len

ScanGuardPair(n, len) == n + 2 <= len

\* for (; next_table + sizeof(SMBStructHeader) <= tables_end; ...)
ScanGuard(n, len) == n + SizeofHeader <= len

\* if (next_table[0] == 0 && next_table[1] == 0)
IsDoubleNull(b, n) == b[n] = 0 /\ b[n + 1] = 0

AfterDoubleNullLong(n) == n + 3

\* next_table += 2;
AfterDoubleNull(n) == n + 2

AfterMissStuck(n) == n

\* next_table++
AfterMiss(n) == n + 1

TableLengthShort(n, t) == n - t - 1

\* auto table_length = next_table - table;
TableLength(n, t) == n - t

NextIndexSkip(i) == i + 2

\* index++
NextIndex(i) == i + 1

\* table = next_table;
Advance(n) == n

DigestReadsLong(t, n) == t .. (t + n)

\* digest.digestMemory(table, table_length): the bytes hashed.
DigestReads(t, n) == t .. (t + n - 1)

Blobs(n) == [0 .. (n - 1) -> ByteVals]

Init ==
  /\ length \in 0 .. MaxLen
  /\ tables \in Blobs(length)
  /\ hostBigEndian \in BOOLEAN
  /\ pc = "while"
  /\ table = 0
  /\ next_table = 0
  /\ index = 0
  /\ r = <<>>
  /\ results = <<>>
  /\ offsets = <<>>
  /\ reads = {}

\* Line 89: the outer loop test succeeds.
WhileEnter ==
  /\ pc = "while"
  /\ HeaderFits(table, length)
  /\ pc' = "check"
  /\ UNCHANGED <<tables, length, hostBigEndian, table, next_table, index, r,
                 results, offsets, reads>>

\* Line 89: fewer than sizeof(SMBStructHeader) bytes remain; return.
WhileExit ==
  /\ pc = "while"
  /\ ~HeaderFits(table, length)
  /\ pc' = "done"
  /\ UNCHANGED <<tables, length, hostBigEndian, table, next_table, index, r,
                 results, offsets, reads>>

\* Lines 90-94: invalid header, break out of the loop.
HeaderBreak ==
  /\ pc = "check"
  /\ reads' = reads \cup {table + 1}
  /\ HeaderInvalid(table, HeaderLength(tables, table), length)
  /\ pc' = "done"
  /\ UNCHANGED <<tables, length, hostBigEndian, table, next_table, index, r,
                 results, offsets>>

\* Lines 90-94: the header's length stays within the blob.
HeaderAccept ==
  /\ pc = "check"
  /\ reads' = reads \cup {table + 1}
  /\ ~HeaderInvalid(table, HeaderLength(tables, table), length)
  /\ pc' = "row"
  /\ UNCHANGED <<tables, length, hostBigEndian, table, next_table, index, r,
                 results, offsets>>

\* Lines 96-109: fill the row from the header and start the scan.
FillRow ==
  /\ pc = "row"
  /\ LET ty == HeaderType(tables, table)
         base == [number |-> index,
                  type |-> ty,
                  handle |-> HeaderHandle(tables, table, hostBigEndian),
                  header_size |-> HeaderLength(tables, table)]
     IN r' = IF ty \in DOMAIN kSMBIOSTypeDescriptions
               THEN base @@ [description |-> kSMBIOSTypeDescriptions[ty]]
               ELSE base
  /\ index' = NextIndex(index)
  /\ reads' = reads \cup (table .. (table + 3))
  /\ next_table' = table + HeaderLength(tables, table)
  /\ pc' = "scan"
  /\ UNCHANGED <<tables, length, hostBigEndian, table, results, offsets>>

\* Lines 110-114: the pair under next_table is a double NULL.
ScanFound ==
  /\ pc = "scan"
  /\ ScanGuard(next_table, length)
  /\ reads' = reads \cup {next_table, next_table + 1}
  /\ IsDoubleNull(tables, next_table)
  /\ next_table' = AfterDoubleNull(next_table)
  /\ pc' = "finish"
  /\ UNCHANGED <<tables, length, hostBigEndian, table, index, r, results,
                 offsets>>

\* Lines 110-115: the pair under next_table is not a double NULL.
\* (next_table[1] is only read when next_table[0] is zero.)
ScanMiss ==
  /\ pc = "scan"
  /\ ScanGuard(next_table, length)
  /\ reads' = reads \cup (IF tables[next_table] = 0
                            THEN {next_table, next_table + 1}
                            ELSE {next_table})
  /\ ~IsDoubleNull(tables, next_table)
  /\ next_table' = AfterMiss(next_table)
  /\ UNCHANGED <<tables, length, hostBigEndian, pc, table, index, r, results,
                 offsets>>

\* Line 110: the scan ran out of room.
ScanEnd ==
  /\ pc = "scan"
  /\ ~ScanGuard(next_table, length)
  /\ pc' = "finish"
  /\ UNCHANGED <<tables, length, hostBigEndian, table, next_table, index, r,
                 results, offsets, reads>>

\* Lines 117-125: size, digest, advance the cursor, push the row.
Finish ==
  /\ pc = "finish"
  /\ LET table_length == TableLength(next_table, table)
     IN /\ results' = Append(results, r @@ [size |-> table_length])
        /\ reads' = reads \cup DigestReads(table, table_length)
  /\ offsets' = Append(offsets, table)
  /\ table' = Advance(next_table)
  /\ r' = <<>>
  /\ pc' = "while"
  /\ UNCHANGED <<tables, length, hostBigEndian, next_table, index>>

Next ==
  \/ WhileEnter
  \/ WhileExit
  \/ HeaderBreak
  \/ HeaderAccept
  \/ FillRow
  \/ ScanFound
  \/ ScanMiss
  \/ ScanEnd
  \/ Finish

Spec == Init /\ [][Next]_vars

\* The decode is one uninterrupted synchronous computation: whenever a step
\* is possible it is taken.
FairSpec == Init /\ [][Next]_vars /\ WF_vars(Next)

TypeOK ==
  /\ length \in 0 .. MaxLen
  /\ pc \in {"while", "check", "row", "scan", "finish", "done"}
  /\ table \in 0 .. length
  /\ Len(results) = Len(offsets)

----------------------------------------------------------------------------
\* Helpers for stating the properties.

Entries == 1 .. Len(results)

Min(S) == CHOOSE x \in S : \A y \in S : x <= y

Max2(a, b) == IF a >= b THEN a ELSE b

\* End of the byte range of the i-th pushed row.
EntryEnd(i) == offsets[i] + results[i].size

\* Positions at or after s that hold a double NULL anywhere in the blob.
DoubleNullsFrom(s) ==
  {p \in s .. (length - 2) : tables[p] = 0 /\ tables[p + 1] = 0}

\* The cursor sits on a readable header whose length overruns the blob.
AtMalformedHeader ==
  /\ table + SizeofHeader <= length
  /\ table + tables[table + 1] > length

\* C1: every emitted entry lies inside the blob (offset + size <= length),
\* and every byte dereferenced (header, scanned pairs, digest input) has an
\* index in 0..length-1.
C1_EntriesAndReadsInBounds ==
  /\ \A i \in Entries : offsets[i] >= 0 /\ EntryEnd(i) <= length
  /\ reads \subseteq 0 .. (length - 1)

\* C1 witness: a finished decode with two entries, the last one ending
\* exactly at the end of the blob, whose bytes were all read.
C1_Witness ==
  /\ pc = "done"
  /\ Len(results) >= 2
  /\ EntryEnd(Len(results)) = length
  /\ reads = 0 .. (length - 1)

\* C2: at a readable header whose declared length overruns the blob the
\* decode stops at once and the rows pushed so far stay as they are; a header
\* whose length ends exactly at the end of the blob is accepted and emitted;
\* a blob whose first header declares more than the blob length gives no row.
C2_MalformedHeaderTermination ==
  /\ [][(pc = "check" /\ table + tables[table + 1] > length)
          => (pc' = "done" /\ results' = results /\ offsets' = offsets)]_vars
  /\ [][(pc = "check" /\ table + tables[table + 1] <= length)
          => pc' = "row"]_vars
  /\ [](pc = "done" /\ length >= SizeofHeader /\ tables[1] = length
          => Len(results) = 1 /\ results[1].size = length)
  /\ [](pc = "done" /\ length >= SizeofHeader /\ tables[1] > length
          => results = <<>>)
  /\ [](pc = "done" /\ table + SizeofHeader <= length
          => /\ table + tables[table + 1] > length
             /\ \A i \in Entries : EntryEnd(i) <= table)

\* C2 witness: the decode stopped on a malformed header after having pushed
\* at least one row.
C2_Witness ==
  /\ pc = "done"
  /\ Len(results) >= 1
  /\ AtMalformedHeader

\* C3 (as stated in the specification): every emitted entry has
\* size >= header_size >= 4, so the cursor advances by at least 4 per entry.
C3_HeaderSizeAtLeastFour ==
  \A i \in Entries :
    /\ results[i].size >= results[i].header_size
    /\ results[i].header_size >= SizeofHeader
    /\ results[i].size >= SizeofHeader

\* The 6-byte blob {type=127, length=4, handle=0} followed by 00 00.
EndOfTableBlob ==
  (0 :> 127) @@ (1 :> 4) @@ (2 :> 0) @@ (3 :> 0) @@ (4 :> 0) @@ (5 :> 0)

EndOfTableRow(sz) ==
  [number |-> 0, type |-> 127, description |-> "End-of-Table", handle |-> 0,
   header_size |-> 4, size |-> sz]

\* C4 (as stated in the specification): the End-of-Table blob decodes to one
\* row of size 6, the double-NULL terminator being counted.
C4_Original ==
  (pc = "done" /\ tables = EndOfTableBlob) => results = <<EndOfTableRow(6)>>

\* C4 (amended): the End-of-Table blob decodes to exactly one row with
\* type 127, description "End-of-Table", header_size 4 and size 4: the
\* terminator at the very end of the blob is never scanned, because fewer
\* than 4 bytes remain at its position.
C4_EndOfTableSizeFour ==
  (pc = "done" /\ tables = EndOfTableBlob) => results = <<EndOfTableRow(4)>>

\* C4 witness: the decode of the End-of-Table blob has finished.
C4_Witness ==
  /\ pc = "done"
  /\ length = 6
  /\ tables = EndOfTableBlob
  /\ Len(results) = 1

\* C5: the emitted entries tile a prefix of the blob: the first starts at
\* offset 0 and each next one starts where the previous one ends.
C5_EntriesContiguous ==
  /\ Len(offsets) = Len(results)
  /\ Len(offsets) >= 1 => offsets[1] = 0
  /\ \A i \in Entries : i < Len(results) => offsets[i + 1] = EntryEnd(i)
  /\ pc \in {"while", "check", "done"} /\ Len(results) >= 1
       => table = EntryEnd(Len(results))

\* C5 witness: three entries were emitted, at three different offsets.
C5_Witness ==
  /\ pc = "done"
  /\ Len(results) >= 3
  /\ offsets[3] > offsets[2]
  /\ offsets[2] > offsets[1]

\* C6: the number fields of the N rows are 0, 1, ..., N-1 in order, and a
\* header rejected as malformed consumes no number.
C6_NumbersGapFree ==
  /\ \A i \in Entries : results[i].number = i - 1
  /\ pc \in {"while", "check", "done"} => index = Len(results)

\* C6 witness: two or more rows, then a rejected header.
C6_Witness ==
  /\ pc = "done"
  /\ Len(results) >= 2
  /\ AtMalformedHeader
  /\ index = Len(results)

\* C7: the decode always terminates, the inner scan always finishes, and the
\* cursor strictly increases on every emitted entry, for every blob (empty,
\* shorter than a header, or garbage with header length 0).
C7_AlwaysTerminates ==
  /\ <>(pc = "done")
  /\ (pc = "scan") ~> (pc = "finish")
  /\ [][pc = "finish" => (table' > table /\ table' <= length)]_vars
  /\ [][pc = "scan" => (next_table' >= next_table /\ next_table' <= length)]_vars

\* C7 witness: a finished decode that emitted an entry for a header whose
\* length byte is 0.
C7_Witness ==
  /\ pc = "done"
  /\ \E i \in Entries : results[i].header_size = 0

\* One well-formed structure (length >= 4, trailing data closed by its first
\* double NULL) followed by 1 to 3 residual bytes.
LostTailBlob ==
  /\ length >= SizeofHeader
  /\ tables[1] >= SizeofHeader
  /\ tables[1] <= length
  /\ DoubleNullsFrom(tables[1]) # {}
  /\ length - (Min(DoubleNullsFrom(tables[1])) + 2) \in 1 .. 3

\* C8: such a blob decodes to exactly one entry, and no residual byte lies
\* inside the entry's byte range.
C8_LostTail ==
  (pc = "done" /\ LostTailBlob) =>
    /\ Len(results) = 1
    /\ offsets[1] = 0
    /\ EntryEnd(1) <= Min(DoubleNullsFrom(tables[1])) + 2

\* C8 witness: the structure's terminator was consumed and the residue was
\* left out.
C8_Witness ==
  /\ pc = "done"
  /\ LostTailBlob
  /\ Len(results) = 1
  /\ EntryEnd(1) = Min(DoubleNullsFrom(tables[1])) + 2
  /\ EntryEnd(1) < length

\* C9 (as stated in the specification): handle is the little-endian value
\* of bytes o+2, o+3 whatever the host's byte order; type is byte o and
\* header_size is byte o+1.
C9_HandleLittleEndian ==
  \A i \in Entries :
    /\ results[i].handle = tables[offsets[i] + 2] + 256 * tables[offsets[i] + 3]
    /\ results[i].handle \in 0 .. 65535
    /\ results[i].type = tables[offsets[i]]
    /\ results[i].header_size = tables[offsets[i] + 1]

\* Positions the scan may stop on for a structure whose formatted region
\* ends at s: double NULLs with at least 4 bytes left from their start.
Terminators(s) ==
  {p \in s .. (length - SizeofHeader) : tables[p] = 0 /\ tables[p + 1] = 0}

ExpectedEnd(s) ==
  IF Terminators(s) # {}
    THEN Min(Terminators(s)) + 2
    ELSE Max2(s, length - 3)

\* C10: a pair at p is examined only when p + 4 <= length; an entry ends
\* two bytes past the first examined double NULL at or after
\* s = offset + header_size, or at max(s, length - 3) when there is none;
\* size = end - offset.
C10_ScanResult ==
  /\ [](\A i \in Entries :
          /\ EntryEnd(i) = ExpectedEnd(offsets[i] + results[i].header_size)
          /\ results[i].size = EntryEnd(i) - offsets[i])
  /\ [][(pc = "scan" /\ next_table' # next_table)
          => next_table + SizeofHeader <= length]_vars

\* C10 witness: an entry whose scan ran over trailing bytes without finding
\* a terminator and stopped at length - 3, and an entry closed by a double
\* NULL found after skipping trailing bytes.
C10_Witness ==
  /\ pc = "done"
  /\ \E i \in Entries :
       LET s == offsets[i] + results[i].header_size
       IN Terminators(s) = {} /\ s < length - 3 /\ EntryEnd(i) = length - 3
  /\ \E i \in Entries :
       LET s == offsets[i] + results[i].header_size
       IN Terminators(s) # {} /\ Min(Terminators(s)) > s

====
